---- MODULE Spec2Model ----
(***************************************************************************)
(* Model of scripts/import_pdf.py (and of the older copy kept under the    *)
(* .xcodeproj directory): text normalisation, price-token extraction, row  *)
(* and free-text matching, field assignment and the acceptance policy of   *)
(* main().                                                                 *)
(*                                                                         *)
(* A Python str is a sequence of characters; a character is a one-letter   *)
(* string, except the three non-ASCII characters of the source, written    *)
(* "euro" (U+20AC), "endash" (U+2013) and "emdash" (U+2014).               *)
(***************************************************************************)
EXTENDS Integers, Sequences, FiniteSets, TLC

VARIABLES
    pc,          \* position of the running scenario
    text,        \* normalize / find_price_tokens: the input text
    splitText,   \* normalize: the same text with one word's first letter split off
    result,      \* normalize / find_price_tokens / choose_row: the value returned
    item,        \* choose_row: [id, name] of the item looked up
    rows,        \* choose_row / update_prices / main: the extracted rows
    text_blocks, \* update_prices / main: the extracted page texts
    catalog,     \* update_prices / main: the in-memory catalog
    before,      \* update_prices: the catalog as it was when the call started
    ret,         \* update_prices: sequence of the values returned by the calls made
    force,       \* main: args.force
    catalogFile, \* main: content of the file at args.output
    loadedFile,  \* main: content of that file when it was loaded
    reportFile,  \* main: content of import-report.json (None until written)
    exitCode,    \* main: the process' exit status (None while running)
    script,      \* main: which copy of import_pdf.py runs
    config,      \* main: pdfplumber's presence and the urls of import-config.json
    pdfs         \* main: what the extractor yields for the two documents

vars == <<pc, text, splitText, result, item, rows, text_blocks, catalog, before,
          ret, force, catalogFile, loadedFile, reportFile, exitCode, script,
          config, pdfs>>

\* An optional value: None, or Some(x).  None also stands for a key that a
\* dict does not hold, which dict.get() reports as None.
None == <<>>
Some(x) == <<x>>

\* Body(v) with v standing for value, which is computed once: a local
\* variable of the source that is assigned once and read several times
Bind(value, Body(_)) == CHOOSE r \in {Body(v) : v \in {value}} : TRUE

(***************************************************************************)
(* Characters                                                              *)
(***************************************************************************)
UpperSeq == <<"A","B","C","D","E","F","G","H","I","J","K","L","M",
              "N","O","P","Q","R","S","T","U","V","W","X","Y","Z">>
LowerSeq == <<"a","b","c","d","e","f","g","h","i","j","k","l","m",
              "n","o","p","q","r","s","t","u","v","w","x","y","z">>
Upper == {UpperSeq[i] : i \in 1..26}
Lower == {LowerSeq[i] : i \in 1..26}
Digits == {"0","1","2","3","4","5","6","7","8","9"}
Spaces == {" ", "\t", "\n"}

\* str.lower() on one character
ToLower(c) ==
    IF c \in Upper THEN LowerSeq[CHOOSE i \in 1..26 : UpperSeq[i] = c] ELSE c

\* str.lower()
lower(s) == Bind(s, LAMBDA t : [i \in 1..Len(t) |-> ToLower(t[i])])

\* \w of the re module
IsWord(c) == c \in Upper \cup Lower \cup Digits \cup {"_"}

(***************************************************************************)
(* Regular expressions.  A pattern is a sequence of elements:              *)
(*   [k |-> "b"]                    \b                                     *)
(*   [k |-> "one",  cls |-> C]      one character of class C               *)
(*   [k |-> "plus", cls |-> C]      C+   (greedy)                          *)
(*   [k |-> "star", cls |-> C]      C*   (greedy)                          *)
(*   [k |-> "opt",  sub |-> P]      (?:P)?  (greedy)                       *)
(* and a class is [t |-> "lit", c |-> x, esc |-> b] (the character x,      *)
(* written with a backslash before it when b) or one of the named classes  *)
(* below.                                                                  *)
(***************************************************************************)
Cls(t) == [t |-> t]
LitC(c) == [t |-> "lit", c |-> c, esc |-> FALSE]
One(cls) == [k |-> "one", cls |-> cls]
Plus(cls) == [k |-> "plus", cls |-> cls]
Star(cls) == [k |-> "star", cls |-> cls]
Opt(p) == [k |-> "opt", sub |-> p]
WordB == [k |-> "b"]
\* the pattern text s, a run of ordinary characters
Lit(s) == [i \in 1..Len(s) |-> One(LitC(s[i]))]

InClass(cls, c, ic) ==
    CASE cls.t = "lit"      -> IF ic THEN ToLower(c) = ToLower(cls.c) ELSE c = cls.c
      [] cls.t = "d"        -> c \in Digits                        \* \d
      [] cls.t = "s"        -> c \in Spaces                        \* \s
      [] cls.t = "W"        -> ~IsWord(c)                          \* \W
      [] cls.t = "dash"     -> c \in {"endash", "-"}               \* [–-]
      [] cls.t = "dotcomma" -> c \in {".", ","}                    \* [.,]
      [] cls.t = "lower"    -> c \in Lower                         \* [a-z]
      [] cls.t = "notnorm"  -> c \notin Lower \cup Digits \cup {" "} \* [^a-z0-9 ]

\* \b at position i (between s[i-1] and s[i])
AtBoundary(s, i) ==
    LET l == i > 1 /\ IsWord(s[i-1])
        r == i <= Len(s) /\ IsWord(s[i])
    IN  l # r

\* length of the longest run of class cls starting at s[i]
Run(cls, s, i, ic) ==
    CHOOSE n \in 0..(Len(s) - i + 1) :
        /\ \A k \in i..(i + n - 1) : InClass(cls, s[k], ic)
        /\ (IF i + n <= Len(s) THEN ~InClass(cls, s[i + n], ic) ELSE TRUE)

\* The positions at which a match of pat that starts at position i can end,
\* in the order a backtracking matcher tries them (greedy first).
RECURSIVE Ends(_, _, _, _), TryCounts(_, _, _, _, _, _)
Ends(pat, s, i, ic) ==
    IF Len(pat) = 0 THEN <<i>>
    ELSE LET e == Head(pat)
             rest == Tail(pat)
         IN CASE e.k = "b"    -> IF AtBoundary(s, i) THEN Ends(rest, s, i, ic) ELSE <<>>
              [] e.k = "one"  -> IF i <= Len(s) /\ InClass(e.cls, s[i], ic)
                                 THEN Ends(rest, s, i + 1, ic) ELSE <<>>
              [] e.k = "plus" -> TryCounts(rest, s, i, Run(e.cls, s, i, ic), 1, ic)
              [] e.k = "star" -> TryCounts(rest, s, i, Run(e.cls, s, i, ic), 0, ic)
              [] e.k = "opt"  -> Ends(e.sub \o rest, s, i, ic) \o Ends(rest, s, i, ic)
TryCounts(rest, s, i, n, lo, ic) ==
    Bind(n, LAMBDA c :
        IF c < lo THEN <<>>
        ELSE Ends(rest, s, i + c, ic) \o TryCounts(rest, s, i, c - 1, lo, ic))

\* regex.search(s) from position `from`: <<start, end>> of the leftmost match
\* (end is the position after its last character), or <<>> when there is none
RECURSIVE SearchFrom(_, _, _, _)
SearchFrom(pat, s, from, ic) ==
    IF from > Len(s) + 1 THEN <<>>
    ELSE Bind(Ends(pat, s, from, ic), LAMBDA es :
             IF Len(es) > 0 THEN <<from, Head(es)>>
             ELSE SearchFrom(pat, s, from + 1, ic))

\* spans of the non-overlapping matches, left to right, as finditer yields them
RECURSIVE Spans(_, _, _, _)
Spans(pat, s, from, ic) ==
    Bind(SearchFrom(pat, s, from, ic), LAMBDA m :
        IF Len(m) = 0 THEN <<>>
        ELSE <<m>> \o Spans(pat, s, IF m[2] > m[1] THEN m[2] ELSE m[2] + 1, ic))

\* regex.findall(s) of a pattern without groups: the matched substrings
findall(pat, s) ==
    Bind(s, LAMBDA t :
    Bind(Spans(pat, t, 1, FALSE), LAMBDA sp :
        [j \in 1..Len(sp) |-> SubSeq(t, sp[j][1], sp[j][2] - 1)]))

\* re.sub(pat, repl, s) where reps[j] is the replacement of the j-th match
RECURSIVE Assemble(_, _, _, _, _)
Assemble(s, sp, reps, j, pos) ==
    Bind(<<j, pos>>, LAMBDA b :
        IF b[1] > Len(sp) THEN SubSeq(s, b[2], Len(s))
        ELSE SubSeq(s, b[2], sp[b[1]][1] - 1) \o reps[b[1]]
             \o Assemble(s, sp, reps, b[1] + 1, sp[b[1]][2]))

\* re.sub(pat, repl, s) for a fixed replacement string
sub(pat, repl, s) ==
    Bind(s, LAMBDA t :
    Bind(Spans(pat, t, 1, FALSE), LAMBDA sp :
    Bind([j \in 1..Len(sp) |-> repl], LAMBDA reps :
        Assemble(t, sp, reps, 1, 1))))

\* str.replace(old, new) for a single character old
replace(s, old, new) ==
    Bind(s, LAMBDA t : [i \in 1..Len(t) |-> IF t[i] = old THEN new ELSE t[i]])

\* str.strip()
lstrip(s) ==
    Bind(s, LAMBDA t :
        SubSeq(t, 1 + Cardinality({i \in 1..Len(t) : \A k \in 1..i : t[k] \in Spaces}),
               Len(t)))
rstrip(s) ==
    Bind(s, LAMBDA t :
        SubSeq(t, 1,
               Len(t) - Cardinality({i \in 1..Len(t) : \A k \in i..Len(t) : t[k] \in Spaces})))
strip(s) == rstrip(lstrip(s))

(***************************************************************************)
(* normalize                                                               *)
(***************************************************************************)
NotNormRun == <<Plus(Cls("notnorm"))>>                   \* [^a-z0-9 ]+
SpaceRun == <<Plus(Cls("s"))>>                           \* \s+
\* \b([a-z])\s+([a-z])\b
SplitLetterRE == <<WordB, One(Cls("lower")), Plus(Cls("s")), One(Cls("lower")), WordB>>

\* re.sub(r"\b([a-z])\s+([a-z])\b", r"\1\2", s): both groups are one
\* character, the first and the last of the match
RepairSplit(s) ==
    Bind(s, LAMBDA t :
    Bind(Spans(SplitLetterRE, t, 1, FALSE), LAMBDA sp :
    Bind([j \in 1..Len(sp) |-> <<t[sp[j][1]], t[sp[j][2] - 1]>>], LAMBDA reps :
        Assemble(t, sp, reps, 1, 1))))

normalize(t) ==
    LET t1 == lower(t)
        t2 == replace(replace(t1, "endash", "-"), "emdash", "-")
        t3 == sub(NotNormRun, <<" ">>, t2)
        t4 == strip(sub(SpaceRun, <<" ">>, t3))
        t5 == RepairSplit(t4)
    IN  strip(sub(SpaceRun, <<" ">>, t5))

\* normalize of Prix AC+.xcodeproj/scripts/import_pdf.py
normalize_xc(t) ==
    strip(sub(SpaceRun, <<" ">>, sub(NotNormRun, <<" ">>, lower(t))))

(***************************************************************************)
(* find_price_tokens                                                       *)
(***************************************************************************)
\* \d+(?:[.,]\d+)?\s*€
PRICE_RE == <<Plus(Cls("d")), Opt(<<One(Cls("dotcomma")), Plus(Cls("d"))>>),
              Star(Cls("s")), One(LitC("euro"))>>
\* \d+\s*[–-]\s*\d+\s*€
RANGE_RE == <<Plus(Cls("d")), Star(Cls("s")), One(Cls("dash")), Star(Cls("s")),
              Plus(Cls("d")), Star(Cls("s")), One(LitC("euro"))>>

\* `x in list`
InSeq(x, sq) == \E j \in 1..Len(sq) : sq[j] = x

\* the loop of find_price_tokens: append each match not yet in tokens
RECURSIVE AppendNew(_, _)
AppendNew(tokens, matches) ==
    Bind(<<tokens, matches>>, LAMBDA b :
        IF Len(b[2]) = 0 THEN b[1]
        ELSE AppendNew(IF InSeq(Head(b[2]), b[1]) THEN b[1]
                       ELSE Append(b[1], Head(b[2])),
                       Tail(b[2])))

find_price_tokens(t) ==
    Bind(t, LAMBDA s : AppendNew(findall(RANGE_RE, s), findall(PRICE_RE, s)))

(***************************************************************************)
(* ALIASES: the entries of the item ids that the catalogs below use          *)
(***************************************************************************)
S_iphone_17_pro_max == <<"i","p","h","o","n","e"," ","1","7"," ","p","r","o"," ","m","a","x">>
S_17_pro_max == <<"1","7"," ","p","r","o"," ","m","a","x">>
S_apple_tv == <<"a","p","p","l","e"," ","t","v">>
S_mac_pro == <<"m","a","c"," ","p","r","o">>
S_imac == <<"i","m","a","c">>
S_pro_display_xdr == <<"p","r","o"," ","d","i","s","p","l","a","y"," ","x","d","r">>
S_pro_display == <<"p","r","o"," ","d","i","s","p","l","a","y">>

\* r"\b<words>\b"
Bounded(words) == <<WordB>> \o Lit(words) \o <<WordB>>

\* ALIASES.get(item_id, [])
ALIASES(item_id) ==
    CASE item_id = "iphone-17-pro-max" -> <<Bounded(S_iphone_17_pro_max), Bounded(S_17_pro_max)>>
      [] item_id = "appletv-4k"        -> <<Bounded(S_apple_tv)>>
      [] item_id = "imac"              -> <<Bounded(S_imac)>>
      [] item_id = "mac-pro"           -> <<Bounded(S_mac_pro)>>
      [] item_id = "pro-display-xdr"   -> <<Bounded(S_pro_display_xdr), Bounded(S_pro_display)>>
      [] OTHER                         -> <<>>

(***************************************************************************)
(* choose_row                                                              *)
(***************************************************************************)
\* " ".join(row)
RECURSIVE Join(_)
Join(row) ==
    IF Len(row) = 0 THEN <<>>
    ELSE IF Len(row) = 1 THEN row[1]
    ELSE row[1] \o <<" ">> \o Join(Tail(row))

\* regex.search(s) is not None
Matches(pat, s, ic) == Len(SearchFrom(pat, s, 1, ic)) > 0

\* `w in s` for two strings
Contains(s, w) ==
    Bind(<<s, w>>, LAMBDA b :
        \E i \in 1..(Len(b[1]) - Len(b[2]) + 1) : SubSeq(b[1], i, i + Len(b[2]) - 1) = b[2])

\* [w for w in s.split(" ") if w]
RECURSIVE Words(_)
Words(s) ==
    Bind(s, LAMBDA t :
        IF Len(t) = 0 THEN <<>>
        ELSE IF t[1] = " " THEN Words(Tail(t))
        ELSE Bind(CHOOSE k \in 1..Len(t) :
                     /\ \A j \in 1..k : t[j] # " "
                     /\ (k = Len(t) \/ t[k + 1] = " "),
                  LAMBDA n : <<SubSeq(t, 1, n)>> \o Words(SubSeq(t, n + 1, Len(t)))))

\* the inner loop over rows for one pattern: the first row it matches
RECURSIVE FirstRowMatching(_, _, _)
FirstRowMatching(pattern, rs, j) ==
    IF j > Len(rs) THEN None
    ELSE IF Matches(pattern, normalize(Join(rs[j])), FALSE) THEN Some(Join(rs[j]))
    ELSE FirstRowMatching(pattern, rs, j + 1)

\* the two loops exchanged: rows in document order, any pattern per row
RECURSIVE AliasLoop_RowsOuter(_, _, _)
AliasLoop_RowsOuter(candidates, rs, p) ==
    IF p > Len(rs) THEN None
    ELSE IF \E k \in 1..Len(candidates) :
               Matches(candidates[k], normalize(Join(rs[p])), FALSE)
         THEN Some(Join(rs[p]))
         ELSE AliasLoop_RowsOuter(candidates, rs, p + 1)

\* the alias branch: patterns in order, rows in document order per pattern
RECURSIVE AliasLoop(_, _, _)
AliasLoop(candidates, rs, p) ==
    IF p > Len(candidates) THEN None
    ELSE Bind(FirstRowMatching(candidates[p], rs, 1), LAMBDA hit :
             IF hit # None THEN hit ELSE AliasLoop(candidates, rs, p + 1))

\* sum(1 for w in target_words if w in row_norm)
Score(target_words, row_norm) ==
    Cardinality({k \in 1..Len(target_words) : Contains(row_norm, target_words[k])})

\* the scoring loop; norms[j] is the normalized text of row j
RECURSIVE ScoreLoop(_, _, _, _, _, _)
ScoreLoop(target_words, rs, norms, j, best, best_score) ==
    Bind([best |-> best, best_score |-> best_score], LAMBDA l :
        IF j > Len(rs) THEN l
        ELSE LET row_text == Join(rs[j])
                 row_norm == norms[j]
             IN IF Len(row_norm) = 0
                THEN ScoreLoop(target_words, rs, norms, j + 1, l.best, l.best_score)
                ELSE Bind(Score(target_words, row_norm), LAMBDA score :
                         IF score > l.best_score
                         THEN ScoreLoop(target_words, rs, norms, j + 1, Some(row_text), score)
                         ELSE ScoreLoop(target_words, rs, norms, j + 1, l.best, l.best_score)))

Max(a, b) == IF a >= b THEN a ELSE b
Min(a, b) == IF a <= b THEN a ELSE b

\* the threshold without its floor of 2
Threshold_NoFloor(target_words) == Len(target_words) \div 2

\* max(2, len(target_words) // 2)
Threshold(target_words) == Max(2, Len(target_words) \div 2)

\* the generic scorer; target is the normalized name and norms[j] the
\* normalized text of row j, by the normalize of the script that runs
generic_choose_row(target, rs, norms) ==
    Bind(Words(target), LAMBDA target_words :
    Bind(ScoreLoop(target_words, rs, norms, 1, None, 0), LAMBDA l :
        IF l.best_score >= Threshold(target_words) THEN l.best ELSE None))

choose_row(item_id, product_name, rs) ==
    Bind(ALIASES(item_id), LAMBDA candidates :
        IF Len(candidates) > 0 THEN AliasLoop(candidates, rs, 1)
        ELSE Bind([j \in 1..Len(rs) |-> normalize(Join(rs[j]))], LAMBDA norms :
                 generic_choose_row(normalize(product_name), rs, norms)))

\* choose_row of Prix AC+.xcodeproj/scripts/import_pdf.py
choose_row_xc(product_name, rs) ==
    Bind([j \in 1..Len(rs) |-> normalize_xc(Join(rs[j]))], LAMBDA norms :
        generic_choose_row(normalize_xc(product_name), rs, norms))

(***************************************************************************)
(* search_in_text                                                          *)
(***************************************************************************)
\* the characters re.escape() writes a backslash before
EscapedChars == {"(", ")", "[", "]", "{", "}", "?", "*", "+", "-", "|", "^", "$",
                 "\\", ".", "&", "~", "#", " ", "\t", "\n"}

\* re.escape(product_name)
escape(name) ==
    [i \in 1..Len(name) |->
        One([t |-> "lit", c |-> name[i], esc |-> name[i] \in EscapedChars])]

\* pattern.replace(" ", r"\W+") on the pattern's text: a plain space becomes
\* \W+, and the space of an escaped space "\ " leaves "\\W+", which reads as
\* a literal backslash followed by one or more letters W
RECURSIVE flexible(_)
flexible(pat) ==
    IF Len(pat) = 0 THEN <<>>
    ELSE LET e == Head(pat)
             isSpace == e.k = "one" /\ e.cls.t = "lit" /\ e.cls.c = " "
         IN (IF isSpace /\ e.cls.esc THEN <<One(LitC("\\")), Plus(LitC("W"))>>
             ELSE IF isSpace THEN <<Plus(Cls("W"))>>
             ELSE <<e>>) \o flexible(Tail(pat))

WindowLen == 600

\* block[start:start + 600], start being the 0-based match.end()
Window(block, m) == SubSeq(block, m[2], Min(Len(block), m[2] + WindowLen - 1))

\* the loop over patterns for one block
RECURSIVE PatternLoop(_, _, _)
PatternLoop(block, patterns, p) ==
    IF p > Len(patterns) THEN None
    ELSE Bind(SearchFrom(flexible(patterns[p]), block, 1, TRUE), LAMBDA m :
             IF Len(m) = 0 THEN PatternLoop(block, patterns, p + 1)
             ELSE Bind(Window(block, m), LAMBDA window :
                      IF Len(find_price_tokens(window)) > 0
                      THEN Some(window)
                      ELSE PatternLoop(block, patterns, p + 1)))

RECURSIVE BlockLoop(_, _, _)
BlockLoop(blocks, patterns, b) ==
    IF b > Len(blocks) THEN None
    ELSE Bind(PatternLoop(blocks[b], patterns, 1), LAMBDA hit :
             IF hit # None THEN hit ELSE BlockLoop(blocks, patterns, b + 1))

search_in_text(product_id, product_name, blocks) ==
    Bind(ALIASES(product_id), LAMBDA al :
    Bind(IF Len(al) = 0 THEN <<escape(product_name)>> ELSE al, LAMBDA patterns :
        BlockLoop(blocks, patterns, 1)))

(***************************************************************************)
(* update_prices                                                           *)
(***************************************************************************)
\* `not x` for an optional string: None or ""
Falsy(x) == x = None \/ Len(x[1]) = 0

PriceFields == {"standardOneTime", "standardMonthly", "theftOneTime", "theftMonthly"}

\* the dict {}: no price field is set
EmptyCare == [f \in PriceFields |-> None]

\* item.get("appleCare", {})
CareOf(it) == IF it.appleCare = None THEN EmptyCare ELSE it.appleCare[1]

\* the count decided from the wrong key
Expected_OneTimeKey(applecare) == IF applecare["standardOneTime"] # None THEN 2 ELSE 1

\* lines 195-197: the number of prices an item needs
Expected(applecare) == IF applecare["standardMonthly"] # None THEN 2 ELSE 1

\* the premium-tier prices taken one position too early
Assign_TheftShifted(applecare, prices, expected) ==
    LET a1 == IF expected = 2
              THEN [applecare EXCEPT !["standardOneTime"] = Some(prices[1]),
                                     !["standardMonthly"] = Some(prices[2])]
              ELSE [applecare EXCEPT !["standardOneTime"] = Some(prices[1])]
    IN IF Len(prices) >= 4
       THEN [a1 EXCEPT !["theftOneTime"] = Some(prices[2]),
                       !["theftMonthly"] = Some(prices[3])]
       ELSE a1

\* lines 210-218: the fields written from the prices
Assign(applecare, prices, expected) ==
    LET a1 == IF expected = 2
              THEN [applecare EXCEPT !["standardOneTime"] = Some(prices[1]),
                                     !["standardMonthly"] = Some(prices[2])]
              ELSE [applecare EXCEPT !["standardOneTime"] = Some(prices[1])]
    IN IF Len(prices) >= 4
       THEN [a1 EXCEPT !["theftOneTime"] = Some(prices[3]),
                       !["theftMonthly"] = Some(prices[4])]
       ELSE a1

Outcome(id, status, row) == [id |-> id, status |-> status, row |-> row]

\* no second try
Retries_Never(prices, expected, used_text_search, blocks) == FALSE

\* the test of line 206 taken one too far
TooFew_OffByOne(prices, expected) == Len(prices) <= expected

\* line 206: the prices do not cover what the item needs
TooFew(prices, expected) == Len(prices) < expected

\* lines 199-204: whether the free-text search is tried again
Retries(prices, expected, used_text_search, blocks) ==
    Len(prices) < expected /\ ~used_text_search /\ Len(blocks) > 0

\* the body of the loop over items, lines 183-222: the item as it is left,
\* the outcome appended to updates and what is added to matched
process_item(it, rs, blocks) ==
    Bind(choose_row(it.id, it.name, rs), LAMBDA found :
    Bind(Falsy(found) /\ Len(blocks) > 0, LAMBDA searched :
    Bind(IF searched THEN search_in_text(it.id, it.name, blocks) ELSE found, LAMBDA row1 :
        IF Falsy(row1)
        THEN [item |-> it, out |-> Outcome(it.id, "no-match", None), matched |-> 0]
        ELSE
    Bind(find_price_tokens(row1[1]), LAMBDA prices1 :
    Bind(CareOf(it), LAMBDA applecare :
    Bind(Expected(applecare), LAMBDA expected :
    Bind(IF Retries(prices1, expected, searched, blocks)
         THEN search_in_text(it.id, it.name, blocks) ELSE None, LAMBDA fallback_text :
    Bind(IF Falsy(fallback_text) THEN row1 ELSE fallback_text, LAMBDA row_text :
    Bind(IF Falsy(fallback_text) THEN prices1
         ELSE find_price_tokens(fallback_text[1]), LAMBDA prices :
        IF TooFew(prices, expected)
        THEN [item |-> it, out |-> Outcome(it.id, "not-enough-prices", row_text),
              matched |-> 0]
        ELSE [item |-> [it EXCEPT !.appleCare = Some(Assign(applecare, prices, expected))],
              out |-> Outcome(it.id, "updated", row_text), matched |-> 1])))))))))

\* lines 97-104 of the .xcodeproj copy
Expected_xc(applecare) ==
    IF applecare["theftOneTime"] # None \/ applecare["theftMonthly"] # None THEN 4
    ELSE IF applecare["standardMonthly"] # None THEN 2
    ELSE 1

\* lines 110-119 of the .xcodeproj copy
Assign_xc(applecare, prices, expected) ==
    IF expected = 4
    THEN [f \in PriceFields |->
            Some(prices[CASE f = "standardOneTime" -> 1 [] f = "standardMonthly" -> 2
                          [] f = "theftOneTime" -> 3 [] f = "theftMonthly" -> 4])]
    ELSE IF expected = 2
    THEN [applecare EXCEPT !["standardOneTime"] = Some(prices[1]),
                           !["standardMonthly"] = Some(prices[2])]
    ELSE [applecare EXCEPT !["standardOneTime"] = Some(prices[1])]

\* the body of the loop over items of the .xcodeproj copy, lines 91-123
process_item_xc(it, rs) ==
    Bind(choose_row_xc(it.name, rs), LAMBDA row_text :
        IF Falsy(row_text)
        THEN [item |-> it, out |-> Outcome(it.id, "no-match", None), matched |-> 0]
        ELSE
    Bind(find_price_tokens(row_text[1]), LAMBDA prices :
    Bind(CareOf(it), LAMBDA applecare :
    Bind(Expected_xc(applecare), LAMBDA expected :
        IF Len(prices) < expected
        THEN [item |-> it, out |-> Outcome(it.id, "not-enough-prices", row_text),
              matched |-> 0]
        ELSE [item |-> [it EXCEPT !.appleCare = Some(Assign_xc(applecare, prices, expected))],
              out |-> Outcome(it.id, "updated", row_text), matched |-> 1]))))

\* one item processed by the script that runs
Process(it, rs, blocks, xc) ==
    IF xc THEN process_item_xc(it, rs) ELSE process_item(it, rs, blocks)

\* the loop over the items of one category; acc collects the items as they
\* are left and the running matched, total and updates
RECURSIVE ItemLoop(_, _, _, _, _, _)
ItemLoop(items, j, rs, blocks, xc, acc) ==
    Bind(acc, LAMBDA a :
        IF j > Len(items) THEN a
        ELSE Bind(Process(items[j], rs, blocks, xc), LAMBDA r :
                 ItemLoop(items, j + 1, rs, blocks, xc,
                          [items |-> Append(a.items, r.item),
                           matched |-> a.matched + r.matched,
                           total |-> a.total + 1,
                           updates |-> Append(a.updates, r.out)])))

\* the loop over categories
RECURSIVE CategoryLoop(_, _, _, _, _, _, _)
CategoryLoop(cats, c, rs, blocks, category_ids, xc, acc) ==
    Bind(acc, LAMBDA a :
        IF c > Len(cats) THEN a
        ELSE IF cats[c].id \notin category_ids
        THEN CategoryLoop(cats, c + 1, rs, blocks, category_ids, xc,
                          [a EXCEPT !.categories = Append(@, cats[c])])
        ELSE Bind(ItemLoop(cats[c].items, 1, rs, blocks, xc,
                           [items |-> <<>>, matched |-> a.matched,
                            total |-> a.total, updates |-> a.updates]), LAMBDA r :
                 CategoryLoop(cats, c + 1, rs, blocks, category_ids, xc,
                              [categories |-> Append(a.categories,
                                                     [cats[c] EXCEPT !.items = r.items]),
                               matched |-> r.matched, total |-> r.total,
                               updates |-> r.updates])))

\* update_prices of either script: what it returns, and the catalog as the
\* call leaves it
UpdatePrices(cat, rs, blocks, category_ids, xc) ==
    Bind(<<rs, blocks>>, LAMBDA b :
    Bind(CategoryLoop(cat.categories, 1, b[1], b[2], category_ids, xc,
                      [categories |-> <<>>, matched |-> 0, total |-> 0,
                       updates |-> <<>>]), LAMBDA r :
        [catalog |-> [cat EXCEPT !.categories = r.categories],
         matched |-> r.matched, total |-> r.total, updates |-> r.updates]))

update_prices(cat, rs, blocks, category_ids) ==
    UpdatePrices(cat, rs, blocks, category_ids, FALSE)

\* update_prices of Prix AC+.xcodeproj/scripts/import_pdf.py
update_prices_xc(cat, rs, category_ids) ==
    UpdatePrices(cat, rs, <<>>, category_ids, TRUE)

(***************************************************************************)
(* Scenarios.  Each specification below draws its inputs in its initial    *)
(* predicate and leaves the variables it does not use at Idle.             *)
(***************************************************************************)
Idle == <<>>

\* the sequences over S of length at most n
BoundedSeq(S, n) == UNION {[1..k -> S] : k \in 0..n}

\* those that hold no element twice
DistinctSeq(S, n) ==
    {sq \in BoundedSeq(S, n) : \A i, j \in 1..Len(sq) : sq[i] = sq[j] => i = j}

RECURSIVE Flatten(_)
Flatten(ss) == IF Len(ss) = 0 THEN <<>> ELSE Head(ss) \o Flatten(Tail(ss))

(***************************************************************************)
(* normalize on a text and on the same text with a word's first letter     *)
(* split off                                                               *)
(***************************************************************************)
MaxTextLen == 4
NormChars == {"A", "p", "l", " ", "-"}

\* position i holds the first letter of a word that goes on at i + 1
WordStartsAt(t, i) ==
    /\ i < Len(t)
    /\ t[i] \in Upper \cup Lower
    /\ t[i + 1] \in Upper \cup Lower
    /\ (IF i = 1 THEN TRUE ELSE ~IsWord(t[i - 1]))

NormInit ==
    /\ pc = "norm_input"
    /\ text \in BoundedSeq(NormChars, MaxTextLen)
    /\ splitText = None /\ result = None
    /\ item = Idle /\ rows = Idle /\ text_blocks = Idle /\ catalog = Idle
    /\ before = Idle /\ ret = Idle /\ force = Idle /\ catalogFile = Idle
    /\ loadedFile = Idle /\ reportFile = Idle /\ exitCode = Idle
    /\ script = Idle /\ config = Idle /\ pdfs = Idle

\* the extraction artifact: whitespace after the first letter of a word
SplitLetter ==
    /\ pc = "norm_input"
    /\ \E i \in 1..Len(text) :
          /\ WordStartsAt(text, i)
          /\ splitText' = Some(SubSeq(text, 1, i) \o <<" ">> \o SubSeq(text, i + 1, Len(text)))
    /\ pc' = "norm_split"
    /\ UNCHANGED <<text, result, item, rows, text_blocks, catalog, before, ret, force,
                   catalogFile, loadedFile, reportFile, exitCode, script, config, pdfs>>

Normalize ==
    /\ pc = "norm_split"
    /\ result' = Some([whole |-> normalize(text), split |-> normalize(splitText[1])])
    /\ pc' = "norm_done"
    /\ UNCHANGED <<text, splitText, item, rows, text_blocks, catalog, before, ret, force,
                   catalogFile, loadedFile, reportFile, exitCode, script, config, pdfs>>

NormNext == SplitLetter \/ Normalize
SpecNormalize == NormInit /\ [][NormNext]_vars

\* C5: normalize gives a text whose word has its first letter split off by
\* whitespace the same string as it gives the unsplit text.
C5_SplitLetterRepaired ==
    pc = "norm_done" => result[1].split = result[1].whole

(***************************************************************************)
(* find_price_tokens on a text made of a few pieces                        *)
(***************************************************************************)
MaxPieces == 3
TokPieces == {<<"1">>, <<"2">>, <<" ">>, <<",">>, <<"euro">>, <<"endash">>,
              <<"a">>, <<"1", "-", "2", "euro">>}

TokInit ==
    /\ pc = "tok_input"
    /\ \E ps \in BoundedSeq(TokPieces, MaxPieces) : text = Flatten(ps)
    /\ result = None
    /\ splitText = Idle
    /\ item = Idle /\ rows = Idle /\ text_blocks = Idle /\ catalog = Idle
    /\ before = Idle /\ ret = Idle /\ force = Idle /\ catalogFile = Idle
    /\ loadedFile = Idle /\ reportFile = Idle /\ exitCode = Idle
    /\ script = Idle /\ config = Idle /\ pdfs = Idle

FindPriceTokens ==
    /\ pc = "tok_input"
    /\ result' = Some(find_price_tokens(text))
    /\ pc' = "tok_done"
    /\ UNCHANGED <<text, splitText, item, rows, text_blocks, catalog, before, ret, force,
                   catalogFile, loadedFile, reportFile, exitCode, script, config, pdfs>>

TokNext == FindPriceTokens
SpecTokens == TokInit /\ [][TokNext]_vars

NoDuplicates(sq) == \A i, j \in 1..Len(sq) : sq[i] = sq[j] => i = j

\* the matches of pat in t that no earlier match equals, in document order
RECURSIVE Distinct(_)
Distinct(sq) ==
    IF Len(sq) = 0 THEN <<>>
    ELSE LET d == Distinct(SubSeq(sq, 1, Len(sq) - 1))
         IN IF InSeq(sq[Len(sq)], d) THEN d ELSE Append(d, sq[Len(sq)])

\* C6: find_price_tokens returns all range tokens in document order, then
\* the single-amount tokens in document order, and no string twice.
C6_RangesThenAmountsNoDuplicates ==
    pc = "tok_done" =>
        LET tokens == result[1]
            ranges == findall(RANGE_RE, text)
            amounts == findall(PRICE_RE, text)
            n == Len(ranges)
        IN /\ Len(tokens) >= n
           /\ SubSeq(tokens, 1, n) = ranges
           /\ SubSeq(tokens, n + 1, Len(tokens)) =
                 SelectSeq(Distinct(amounts), LAMBDA a : ~InSeq(a, ranges))
           /\ NoDuplicates(tokens)

\* the only priced span of t is one range: every amount lies inside it
OnlyOneRange(t) ==
    LET rs == Spans(RANGE_RE, t, 1, FALSE)
        as == Spans(PRICE_RE, t, 1, FALSE)
    IN /\ Len(rs) = 1
       /\ \A k \in 1..Len(as) : rs[1][1] <= as[k][1] /\ as[k][2] <= rs[1][2]

\* C8: for a text whose only priced span is a single range, the result is
\* that range token alone, with no amount taken from inside the range.
C8_RangeCountedOnce ==
    (pc = "tok_done" /\ OnlyOneRange(text)) =>
        result[1] = findall(RANGE_RE, text)

(***************************************************************************)
(* choose_row on one item and a few rows                                   *)
(***************************************************************************)
MaxRows == 2
Row_pro_display == <<<<"P","r","o"," ","D","i","s","p","l","a","y">>, <<"5"," ","euro">>>>
Row_pro_display_xdr == <<<<"P","r","o"," ","D","i","s","p","l","a","y"," ","X","D","R"," ","9"," ","euro">>>>
Row_apple_vision == <<<<"A","p","p","l","e"," ","V","i","s","i","o","n"," ","3"," ","euro">>>>
Row_apple_vision_pro == <<<<"A","p","p","l","e"," ","V","i","s","i","o","n"," ","P","r","o">>, <<"7"," ","euro">>, <<"1"," ","euro">>>>
Row_dashes == <<<<"-"," ","-">>>>
Row_apple_tv == <<<<"A","p","p","l","e"," ","T","V">>>>
Name_pro_display_xdr == <<"P","r","o"," ","D","i","s","p","l","a","y"," ","X","D","R">>
Name_vision3 == <<"A","p","p","l","e"," ","V","i","s","i","o","n"," ","P","r","o">>
Name_vision5 == <<"A","p","p","l","e"," ","V","i","s","i","o","n"," ","P","r","o"," ","D","i","s","p","l","a","y"," ","X","D","R">>
Name_vision6 == <<"A","p","p","l","e"," ","V","i","s","i","o","n"," ","P","r","o"," ","D","i","s","p","l","a","y"," ","X","D","R"," ","K","i","t">>

RowPool == {Row_pro_display, Row_pro_display_xdr, Row_apple_vision,
            Row_apple_vision_pro, Row_dashes, Row_apple_tv}

\* one item with aliases, and items that ALIASES does not list, with names
\* of three, five and six words
RowItems == {[id |-> "pro-display-xdr", name |-> Name_pro_display_xdr],
             [id |-> "vision-pro", name |-> Name_vision3],
             [id |-> "vision-bundle", name |-> Name_vision5],
             [id |-> "vision-kit", name |-> Name_vision6]}

RowInit ==
    /\ pc = "row_input"
    /\ item \in RowItems
    /\ rows \in BoundedSeq(RowPool, MaxRows)
    /\ result = None
    /\ text = Idle /\ splitText = Idle /\ text_blocks = Idle /\ catalog = Idle
    /\ before = Idle /\ ret = Idle /\ force = Idle /\ catalogFile = Idle
    /\ loadedFile = Idle /\ reportFile = Idle /\ exitCode = Idle
    /\ script = Idle /\ config = Idle /\ pdfs = Idle

ChooseRow ==
    /\ pc = "row_input"
    /\ result' = choose_row(item.id, item.name, rows)
    /\ pc' = "row_done"
    /\ UNCHANGED <<text, splitText, item, rows, text_blocks, catalog, before, ret, force,
                   catalogFile, loadedFile, reportFile, exitCode, script, config, pdfs>>

RowNext == ChooseRow
SpecChooseRow == RowInit /\ [][RowNext]_vars

\* row j is matched by the p-th alias pattern of the item
RowMatches(p, j) ==
    Matches(ALIASES(item.id)[p], normalize(Join(rows[j])), FALSE)

SetMin(S) == CHOOSE x \in S : \A y \in S : x <= y
SetMax(S) == CHOOSE x \in S : \A y \in S : x >= y

\* C7: for an item with alias patterns, choose_row returns the first row in
\* document order matched by the earliest pattern that matches any row, and
\* none when no pattern matches a row.
C7_AliasPriority ==
    (pc = "row_done" /\ Len(ALIASES(item.id)) > 0) =>
        LET hits == {p \in 1..Len(ALIASES(item.id)) :
                        \E j \in 1..Len(rows) : RowMatches(p, j)}
        IN IF hits = {} THEN result = None
           ELSE LET p == SetMin(hits)
                    j == SetMin({k \in 1..Len(rows) : RowMatches(p, k)})
                IN result = Some(Join(rows[j]))

\* a row matched by the second pattern only comes before the row that the
\* first pattern matches, and the later row is returned
C7_Witness ==
    /\ pc = "row_done"
    /\ Len(ALIASES(item.id)) > 1
    /\ Len(rows) = 2
    /\ RowMatches(2, 1) /\ ~RowMatches(1, 1)
    /\ RowMatches(1, 2)
    /\ result = Some(Join(rows[2]))
    /\ Join(rows[2]) # Join(rows[1])

\* the number of words of the item's normalized name found in row j
WordsFound(j) ==
    LET ws == Words(normalize(item.name))
        row_norm == normalize(Join(rows[j]))
    IN Cardinality({k \in 1..Len(ws) : Contains(row_norm, ws[k])})

MaxItems == 1
MaxUpdRows == 2
MaxBlocks == 1

OldPrice == <<"0","euro">>
Name_mac_pro == <<"M","a","c"," ","P","r","o">>
Name_vision_pro == <<"V","i","s","i","o","n"," ","P","r","o">>
URow_one_price == <<<<"M","a","c"," ","P","r","o">>, <<"9"," ","euro">>>>
URow_five_prices == <<<<"M","a","c"," ","P","r","o"," ","9","euro"," ","2","euro"," ","3","euro"," ","4","euro"," ","5","euro">>>>
URow_no_price == <<<<"M","a","c"," ","P","r","o">>>>
URow_vision == <<<<"V","i","s","i","o","n"," ","P","r","o"," ","7","euro"," ","1","euro">>>>
Block_two_prices == <<"M","a","c"," ","P","r","o"," ","5","euro"," ","1",",","5","euro">>
Block_one_price == <<"m","a","c","\n","p","r","o",":"," ","8"," ","euro">>
Block_no_price == <<"M","a","c"," ","P","r","o">>

UpdRowPool == {URow_one_price, URow_five_prices, URow_no_price, URow_vision}
BlockPool == {Block_two_prices, Block_one_price, Block_no_price}

\* the shapes of appleCare: absent, one-time only, with a monthly price, and
\* with the premium-tier prices too
CareShapes ==
    {None,
     Some([EmptyCare EXCEPT !["standardOneTime"] = Some(OldPrice)]),
     Some([EmptyCare EXCEPT !["standardOneTime"] = Some(OldPrice),
                            !["standardMonthly"] = Some(OldPrice)]),
     Some([f \in PriceFields |-> Some(OldPrice)])}

\* an item with an alias in every shape, and one that ALIASES does not list
ItemPool ==
    {[id |-> "mac-pro", name |-> Name_mac_pro, appleCare |-> a] : a \in CareShapes}
    \cup {[id |-> "vision-pro", name |-> Name_vision_pro, appleCare |-> None]}

\* a category that is not among the category ids of the call
OtherCategory ==
    [id |-> "other",
     items |-> <<[id |-> "mac-pro", name |-> Name_mac_pro, appleCare |-> None]>>]

UpdCategoryIds == {"mac"}

UpdInit ==
    /\ pc = "upd_input"
    /\ \E items \in DistinctSeq(ItemPool, MaxItems) :
          catalog = [categories |-> <<[id |-> "mac", items |-> items], OtherCategory>>,
                     lastUpdated |-> None, sources |-> None]
    /\ rows \in DistinctSeq(UpdRowPool, MaxUpdRows)
    /\ text_blocks \in DistinctSeq(BlockPool, MaxBlocks)
    /\ before = None /\ ret = <<>>
    /\ text = Idle /\ splitText = Idle /\ result = Idle /\ item = Idle
    /\ force = Idle /\ catalogFile = Idle
    /\ loadedFile = Idle /\ reportFile = Idle /\ exitCode = Idle
    /\ script = Idle /\ config = Idle /\ pdfs = Idle

\* one call of update_prices on the catalog as it stands
CallUpdatePrices(from, to) ==
    /\ pc = from
    /\ \E r \in {update_prices(catalog, rows, text_blocks, UpdCategoryIds)} :
          /\ catalog' = r.catalog
          /\ ret' = Append(ret, [matched |-> r.matched, total |-> r.total,
                                 updates |-> r.updates])
    /\ before' = Some(catalog)
    /\ pc' = to
    /\ UNCHANGED <<text, splitText, result, item, rows, text_blocks, force, catalogFile,
                   loadedFile, reportFile, exitCode, script, config, pdfs>>

FirstRun == CallUpdatePrices("upd_input", "upd_called")
SecondRun == CallUpdatePrices("upd_called", "upd_recalled")

UpdNext == FirstRun \/ SecondRun
SpecUpdate == UpdInit /\ [][UpdNext]_vars

\* after a call: the items the call went through, as they were and as they
\* are, and the outcome of each
Called == pc \in {"upd_called", "upd_recalled"}
ItemsBefore == before[1].categories[1].items
ItemsAfter == catalog.categories[1].items
Outcomes == ret[Len(ret)].updates

\* item.get("appleCare", {}).get(f)
Field(it, f) == IF it.appleCare = None THEN None ELSE it.appleCare[1][f]

Unchanged(k, fields) ==
    \A f \in fields : Field(ItemsAfter[k], f) = Field(ItemsBefore[k], f)

\* the number of prices item k needed when the call started
Required(k) == IF Field(ItemsBefore[k], "standardMonthly") # None THEN 2 ELSE 1

\* the token list finally used for item k: that of the text its outcome records
TokensUsed(k) == find_price_tokens(Outcomes[k].row[1])

\* C2: for an item with a row or window found, 2 prices are required when
\* standardMonthly is non-null and 1 otherwise; exactly the required count
\* gives 'updated' with standardOneTime (and standardMonthly when 2 are
\* required) set and no other price field changed; one fewer gives
\* 'not-enough-prices' and no price field changed.
C2_RequiredCount ==
    Called =>
        \A k \in 1..Len(Outcomes) :
            Outcomes[k].status # "no-match" =>
                LET toks == TokensUsed(k)
                    req == Required(k)
                IN /\ Len(toks) = req =>
                        /\ Outcomes[k].status = "updated"
                        /\ Field(ItemsAfter[k], "standardOneTime") = Some(toks[1])
                        /\ IF req = 2
                           THEN /\ Field(ItemsAfter[k], "standardMonthly") = Some(toks[2])
                                /\ Unchanged(k, {"theftOneTime", "theftMonthly"})
                           ELSE Unchanged(k, PriceFields \ {"standardOneTime"})
                   /\ Len(toks) = req - 1 =>
                        /\ Outcomes[k].status = "not-enough-prices"
                        /\ Unchanged(k, PriceFields)

\* an item that had all four prices gets exactly the two it requires
C2_Witness ==
    /\ pc = "upd_called"
    /\ \E k \in 1..Len(Outcomes) :
          /\ Outcomes[k].status = "updated"
          /\ Required(k) = 2
          /\ Len(TokensUsed(k)) = 2
          /\ Field(ItemsBefore[k], "theftOneTime") = Some(OldPrice)
          /\ Field(ItemsAfter[k], "standardMonthly") # Some(OldPrice)

\* C3: a second call with the same rows, text blocks and category ids
\* returns what the first returned and changes no price field.
C3_Idempotent ==
    pc = "upd_recalled" =>
        /\ ret[2] = ret[1]
        /\ \A k \in 1..Len(ItemsAfter) : Unchanged(k, PriceFields)

\* the second call finds an item to update again
C3_Witness ==
    /\ pc = "upd_recalled"
    /\ \E k \in 1..Len(Outcomes) :
          /\ Outcomes[k].status = "updated"
          /\ Field(ItemsAfter[k], "standardMonthly") = None
          /\ Len(TokensUsed(k)) = 1

\* C4: for an item marked 'updated', every field written holds the token at
\* its fixed position: standardOneTime = tokens[0], standardMonthly =
\* tokens[1] when 2 are required, theftOneTime = tokens[2] and theftMonthly =
\* tokens[3] exactly when there are 4 tokens or more; nothing else is
\* written, so no token after the fourth is.
C4_FixedPositions ==
    Called =>
        \A k \in 1..Len(Outcomes) :
            Outcomes[k].status = "updated" =>
                LET toks == TokensUsed(k)
                    req == Required(k)
                IN /\ Len(toks) >= req
                   /\ Field(ItemsAfter[k], "standardOneTime") = Some(toks[1])
                   /\ IF req = 2
                      THEN Field(ItemsAfter[k], "standardMonthly") = Some(toks[2])
                      ELSE Unchanged(k, {"standardMonthly"})
                   /\ IF Len(toks) >= 4
                      THEN /\ Field(ItemsAfter[k], "theftOneTime") = Some(toks[3])
                           /\ Field(ItemsAfter[k], "theftMonthly") = Some(toks[4])
                      ELSE Unchanged(k, {"theftOneTime", "theftMonthly"})
                   /\ \A f \in PriceFields :
                         \/ Field(ItemsAfter[k], f) = Field(ItemsBefore[k], f)
                         \/ \E n \in 1..Min(4, Len(toks)) :
                               Field(ItemsAfter[k], f) = Some(toks[n])

\* five tokens for an item that requires one: the premium-tier prices are
\* set from the third and fourth, the monthly price is left alone
C4_Witness ==
    /\ Called
    /\ \E k \in 1..Len(Outcomes) :
          /\ Outcomes[k].status = "updated"
          /\ Required(k) = 1
          /\ Len(TokensUsed(k)) = 5
          /\ Field(ItemsBefore[k], "theftOneTime") = None
          /\ Field(ItemsAfter[k], "theftOneTime") = Some(TokensUsed(k)[3])
          /\ Field(ItemsAfter[k], "standardMonthly") = None

\* C9: when the row found has fewer tokens than required and there are text
\* blocks, the free-text search is tried: a window it finds replaces the row
\* as the source of the tokens and as the row of the outcome, and the row is
\* kept when it finds none; 'not-enough-prices' is reported only when the
\* tokens finally used are still fewer than required.
C9_RetryBeforeFailure ==
    Called =>
        \A k \in 1..Len(Outcomes) :
            LET it == ItemsBefore[k]
                row == choose_row(it.id, it.name, rows)
                window == search_in_text(it.id, it.name, text_blocks)
                req == Required(k)
                out == Outcomes[k]
            IN /\ out.status = "not-enough-prices" => Len(TokensUsed(k)) < req
               /\ (/\ row # None
                   /\ Len(find_price_tokens(row[1])) < req
                   /\ Len(text_blocks) > 0) =>
                      IF window # None
                      THEN /\ out.row = window
                           /\ out.status = IF Len(find_price_tokens(window[1])) < req
                                           THEN "not-enough-prices" ELSE "updated"
                      ELSE /\ out.row = row
                           /\ out.status = "not-enough-prices"

\* a row without enough prices is replaced by a window that has them
C9_Witness ==
    /\ pc = "upd_called"
    /\ \E k \in 1..Len(Outcomes) :
          LET it == ItemsBefore[k]
              row == choose_row(it.id, it.name, rows)
          IN /\ row # None
             /\ Len(find_price_tokens(row[1])) = 1
             /\ Required(k) = 2
             /\ Outcomes[k].status = "updated"
             /\ Outcomes[k].row # row
             /\ Outcomes[k].row = search_in_text(it.id, it.name, text_blocks)

(***************************************************************************)
(* The document extractor.  A document is a sequence of pages, a page is   *)
(* [tables, text]: the tables pdfplumber finds on it (a table is a         *)
(* sequence of rows, a row a sequence of cells, a cell None or a string)   *)
(* and the text it extracts (None or a string).                            *)
(***************************************************************************)
\* cell.strip() if cell else ""
CleanCell(cell) == IF cell = None THEN <<>> ELSE strip(cell[1])

\* lines 38-43: the rows of one table that hold a non-empty cell
RECURSIVE TableRows(_)
TableRows(table) ==
    IF Len(table) = 0 THEN <<>>
    ELSE LET cells == [k \in 1..Len(Head(table)) |-> CleanCell(Head(table)[k])]
         IN (IF \E k \in 1..Len(cells) : Len(cells[k]) > 0 THEN <<cells>> ELSE <<>>)
            \o TableRows(Tail(table))

RECURSIVE extract_tables(_)
extract_tables(pdf) ==
    IF Len(pdf) = 0 THEN <<>>
    ELSE Flatten([t \in 1..Len(Head(pdf).tables) |-> TableRows(Head(pdf).tables[t])])
         \o extract_tables(Tail(pdf))

\* page.extract_text() or ""
PageText(page) == IF page.text = None THEN <<>> ELSE page.text[1]

\* str.splitlines()
RECURSIVE splitlines(_)
splitlines(t) ==
    IF Len(t) = 0 THEN <<>>
    ELSE IF \E i \in 1..Len(t) : t[i] = "\n"
    THEN LET n == CHOOSE i \in 1..Len(t) : t[i] = "\n" /\ \A j \in 1..(i - 1) : t[j] # "\n"
         IN <<SubSeq(t, 1, n - 1)>> \o splitlines(SubSeq(t, n + 1, Len(t)))
    ELSE <<t>>

RECURSIVE extract_text_rows(_)
extract_text_rows(pdf) ==
    IF Len(pdf) = 0 THEN <<>>
    ELSE LET lines == splitlines(PageText(Head(pdf)))
             kept == SelectSeq([k \in 1..Len(lines) |-> strip(lines[k])],
                               LAMBDA l : Len(l) > 0)
         IN [k \in 1..Len(kept) |-> <<kept[k]>>] \o extract_text_rows(Tail(pdf))

RECURSIVE extract_text_blocks(_)
extract_text_blocks(pdf) ==
    IF Len(pdf) = 0 THEN <<>>
    ELSE (IF Len(strip(PageText(Head(pdf)))) > 0 THEN <<PageText(Head(pdf))>> ELSE <<>>)
         \o extract_text_blocks(Tail(pdf))

\* rows = extract_tables(path); if not rows: rows = extract_text_rows(path)
RowsOf(pdf) ==
    Bind(extract_tables(pdf), LAMBDA found : IF Len(found) > 0 THEN found ELSE extract_text_rows(pdf))

(***************************************************************************)
(* main                                                                    *)
(***************************************************************************)
MainCategoryIds == {"iphone", "ipad", "watch", "airpods", "beats", "appletv", "homepod"}
MacCategoryIds == {"mac"}

\* a ratio is kept as <<numerator, denominator>>:
\* (matched / total) if total else 0
Ratio(matched, total) == IF total = 0 THEN <<0, 1>> ELSE <<matched, total>>

\* the threshold every script applies
AcceptanceThreshold_Same(which) == <<6, 10>>

\* the threshold of the acceptance check: 1.0 in scripts/import_pdf.py, 0.6
\* in the .xcodeproj copy
AcceptanceThreshold(which) == IF which = "xcodeproj" THEN <<6, 10>> ELSE <<1, 1>>

\* ratio < threshold.  The quotient of two small integers and the literal
\* 0.6 are both rounded to the nearest double, so the comparison of the
\* floats agrees with that of the fractions.
Below(ratio, threshold) == ratio[1] * threshold[2] < threshold[1] * ratio[2]

\* what one call of update_prices returns
Returned(r) == [matched |-> r.matched, total |-> r.total, updates |-> r.updates]

\* update_prices of the script that runs
RunUpdate(which, cat, pdf, category_ids) ==
    IF which = "xcodeproj" THEN update_prices_xc(cat, RowsOf(pdf), category_ids)
    ELSE update_prices(cat, RowsOf(pdf), extract_text_blocks(pdf), category_ids)

\* lines 228-248: the arguments are read, pdfplumber and pdf_url are
\* checked, and the catalog is loaded
MainStart ==
    /\ pc = "main_start"
    /\ IF ~config.pdfplumber \/ config.pdf_url = None
       THEN /\ exitCode' = Some(1)
            /\ pc' = "main_failed"
            /\ UNCHANGED <<catalog, loadedFile>>
       ELSE /\ catalog' = catalogFile.content
            /\ loadedFile' = Some(catalogFile.content)
            /\ pc' = "main_loaded"
            /\ UNCHANGED exitCode
    /\ UNCHANGED <<text, splitText, result, item, rows, text_blocks, before, ret, force,
                   catalogFile, reportFile, script, config, pdfs>>

\* lines 253-264: the main document is extracted and its categories updated
MainPass ==
    /\ pc = "main_loaded"
    /\ rows' = RowsOf(pdfs.main)
    /\ text_blocks' = extract_text_blocks(pdfs.main)
    /\ \E r \in {RunUpdate(script, catalog, pdfs.main, MainCategoryIds)} :
          /\ catalog' = r.catalog
          /\ ret' = <<Returned(r)>>
    /\ pc' = "main_updated"
    /\ UNCHANGED <<text, splitText, result, item, before, force, catalogFile, loadedFile,
                   reportFile, exitCode, script, config, pdfs>>

\* lines 266-280: the mac document, when the configuration names one
MacPass ==
    /\ pc = "main_updated"
    /\ IF config.mac_pdf_url # None
       THEN \E r \in {RunUpdate(script, catalog, pdfs.mac, MacCategoryIds)} :
               /\ catalog' = r.catalog
               /\ ret' = Append(ret, Returned(r))
       ELSE /\ ret' = Append(ret, [matched |-> 0, total |-> 0, updates |-> <<>>])
            /\ UNCHANGED catalog
    /\ pc' = "mac_updated"
    /\ UNCHANGED <<text, splitText, result, item, rows, text_blocks, before, force,
                   catalogFile, loadedFile, reportFile, exitCode, script, config, pdfs>>

\* lines 282-296: the totals, the ratio and the report file
WriteReport ==
    /\ pc = "mac_updated"
    /\ LET total == ret[1].total + ret[2].total
           matched == ret[1].matched + ret[2].matched
       IN reportFile' = Some([matched |-> matched, total |-> total,
                              ratio |-> Ratio(matched, total),
                              main |-> ret[1].updates, mac |-> ret[2].updates])
    /\ pc' = "reported"
    /\ UNCHANGED <<text, splitText, result, item, rows, text_blocks, catalog, before, ret,
                   force, catalogFile, loadedFile, exitCode, script, config, pdfs>>

\* lines 298-308: the acceptance check, then the catalog file is written
Accept ==
    /\ pc = "reported"
    /\ IF Below(reportFile[1].ratio, AcceptanceThreshold(script)) /\ ~force
       THEN /\ exitCode' = Some(2)
            /\ UNCHANGED <<catalog, catalogFile>>
       ELSE \E c \in {[catalog EXCEPT
                          !.lastUpdated = Some("today"),
                          !.sources = Some(<<config.pdf_url[1]>> \o config.mac_pdf_url)]} :
               /\ catalog' = c
               /\ catalogFile' = [content |-> c, writes |-> catalogFile.writes + 1]
               /\ exitCode' = Some(0)
    /\ pc' = "main_done"
    /\ UNCHANGED <<text, splitText, result, item, rows, text_blocks, before, ret, force,
                   loadedFile, reportFile, script, config, pdfs>>

MaxMainItems == 2
MaxMacItems == 1

Name_apple_tv == <<"A","p","p","l","e"," ","T","V">>
Pdf_tables ==
    <<[tables |-> <<<<<<<<<<" ","A","p","p","l","e"," ","T","V">>>>, <<<<"9","euro">>>>>>, <<<<>>, <<<<>>>>>>, <<>>>>>>,
      text |-> <<<<"A","p","p","l","e"," ","T","V"," ","9","euro"," ","2","euro","\n","V","i","s","i","o","n"," ","P","r","o"," ","7","euro">>>>]>>
Pdf_text ==
    <<[tables |-> <<>>,
      text |-> <<<<" ","A","p","p","l","e"," ","T","V"," ","9","euro"," ","2","euro"," ","\n","\n","V","i","s","i","o","n"," ","P","r","o"," ","7","euro">>>>]>>
Pdf_blank ==
    <<[tables |-> <<>>,
      text |-> <<<<" ">>>>],
      [tables |-> <<>>,
      text |-> <<>>]>>
MacPdf_tables ==
    <<[tables |-> <<<<<<<<<<"M","a","c"," ","P","r","o"," ","5","euro"," ","1","euro">>>>>>>>>>,
      text |-> <<<<"M","a","c"," ","P","r","o"," ","5","euro"," ","1","euro">>>>]>>
MacPdf_text ==
    <<[tables |-> <<>>,
      text |-> <<<<"M","a","c"," ","P","r","o">>>>]>>

MainItemPool ==
    {[id |-> "appletv-4k", name |-> Name_apple_tv, appleCare |-> None],
     [id |-> "appletv-4k", name |-> Name_apple_tv,
      appleCare |-> Some([EmptyCare EXCEPT !["standardOneTime"] = Some(OldPrice),
                                           !["standardMonthly"] = Some(OldPrice)])],
     [id |-> "vision-pro", name |-> Name_vision_pro, appleCare |-> None]}

MacItemPool ==
    {[id |-> "mac-pro", name |-> Name_mac_pro, appleCare |-> None],
     [id |-> "mac-pro", name |-> Name_mac_pro,
      appleCare |-> Some([f \in PriceFields |-> Some(OldPrice)])]}

\* pdfplumber missing, pdf_url missing, and the two complete configurations
Configs ==
    {[pdfplumber |-> FALSE, pdf_url |-> Some("main.pdf"), mac_pdf_url |-> None],
     [pdfplumber |-> TRUE, pdf_url |-> None, mac_pdf_url |-> Some("mac.pdf")],
     [pdfplumber |-> TRUE, pdf_url |-> Some("main.pdf"), mac_pdf_url |-> None],
     [pdfplumber |-> TRUE, pdf_url |-> Some("main.pdf"), mac_pdf_url |-> Some("mac.pdf")]}

MainInit ==
    /\ pc = "main_start"
    /\ script \in {"scripts", "xcodeproj"}
    /\ force \in BOOLEAN
    /\ config \in Configs
    /\ pdfs \in [main : {Pdf_tables, Pdf_text, Pdf_blank}, mac : {MacPdf_tables, MacPdf_text}]
    /\ \E mainItems \in DistinctSeq(MainItemPool, MaxMainItems),
          macItems \in DistinctSeq(MacItemPool, MaxMacItems) :
          catalogFile =
              [content |-> [categories |-> <<[id |-> "appletv", items |-> mainItems],
                                             [id |-> "mac", items |-> macItems],
                                             OtherCategory>>,
                            lastUpdated |-> Some("earlier"),
                            sources |-> Some(<<"main.pdf">>)],
               writes |-> 0]
    /\ catalog = None /\ loadedFile = None /\ reportFile = None /\ exitCode = None
    /\ rows = <<>> /\ text_blocks = <<>> /\ ret = <<>>
    /\ text = Idle /\ splitText = Idle /\ result = Idle /\ item = Idle /\ before = Idle

MainNext == MainStart \/ MainPass \/ MacPass \/ WriteReport \/ Accept
SpecMain == MainInit /\ [][MainNext]_vars

\* the run's ratio is below the threshold of the script that runs
RatioBelowThreshold ==
    LET total == ret[1].total + ret[2].total
        matched == ret[1].matched + ret[2].matched
    IN \/ total = 0
       \/ (script = "scripts" /\ matched < total)
       \/ (script = "xcodeproj" /\ 10 * matched < 6 * total)

\* C1: a run that reaches the acceptance check with a ratio below the
\* script's threshold (1.0 in scripts/, 0.6 in the .xcodeproj copy) and
\* without --force exits with code 2, never writes the catalog file, whose
\* content stays as it was loaded, and has written the report file.
C1_RefusalKeepsCatalogFile ==
    /\ (pc = "main_done" /\ RatioBelowThreshold /\ ~force) =>
          /\ exitCode = Some(2)
          /\ catalogFile.writes = 0
          /\ catalogFile.content = loadedFile[1]
          /\ reportFile # None
    /\ exitCode = Some(2) => (reportFile # None /\ catalogFile.writes = 0)
    /\ (pc \in {"main_start", "main_loaded", "main_updated", "mac_updated", "reported"}) =>
          catalogFile.writes = 0

\* scripts/import_pdf.py refuses a run that matched two items of three,
\* after update_prices changed the catalog in memory
C1_Witness ==
    /\ pc = "main_done"
    /\ script = "scripts"
    /\ ~force
    /\ ret[1].matched + ret[2].matched = 2
    /\ ret[1].total + ret[2].total = 3
    /\ exitCode = Some(2)
    /\ catalog # loadedFile[1]
    /\ catalogFile.content = loadedFile[1]
    /\ reportFile # None

====
